---- MODULE Spec2Model ----
(***************************************************************************)
(* Streamlit_project/app1.py: the divorce-analysis dashboard.              *)
(*                                                                         *)
(* The script is re-executed top to bottom on every user interaction.      *)
(* The state is the cached dataset, the values of the four sidebar         *)
(* widgets, and what the last run of the script left behind: the script    *)
(* variables it bound, the st.metric elements it rendered, the charts it   *)
(* drew and the exception (if any) that stopped it.                        *)
(*                                                                         *)
(* Numeric columns age_at_marriage and marriage_duration_years are kept    *)
(* in fixed point, in halves of a year (91 stands for 45.5), so that the   *)
(* int() conversions of lines 122-131 are truncations and not identities.  *)
(* Slider positions are whole years.                                       *)
(***************************************************************************)
EXTENDS Integers, Sequences, FiniteSets, TLC

VARIABLES
    df,                     \* the dataset returned by load_data(): a sequence of rows
    columns,                \* df.columns
    age_range,              \* sidebar slider "Age at Marriage": <<lo, hi>>
    duration_range,         \* sidebar slider "Marriage Duration (years)": <<lo, hi>>
    children_filter,        \* sidebar multiselect "Number of Children": the selected values
    infidelity_filter,      \* sidebar radio "Infidelity Status"
    widgets,                \* the sidebar widgets the last run rendered
    error,                  \* the exception that stopped the last run, or NoError
    rows_scanned,           \* the last run read row values of df (not only its shape)
    metrics,                \* the st.metric elements the last run rendered, in order
    defined,                \* the names the last run bound in lines 148-231
    filtered_df,            \* row positions (in df) of the filtered frame, in frame order
    divorce_counts,         \* divorce_counts as bound by line 194
    divorce_by_infidelity,  \* divorce_by_infidelity as bound by line 219
    divorce_by_children,    \* divorce_by_children as bound by line 231
    pie,                    \* wedges drawn by ax1.pie of line 197
    bars                    \* bars drawn by ax3.bar of line 222

vars == <<df, columns, age_range, duration_range, children_filter, infidelity_filter,
          widgets, error, rows_scanned, metrics, defined, filtered_df, divorce_counts,
          divorce_by_infidelity, divorce_by_children, pie, bars>>

(***************************************************************************)
(* Bounds of the model.                                                    *)
(***************************************************************************)
MaxRows == 3

AllColumns == {"age_at_marriage", "marriage_duration_years", "num_children",
               "infidelity_occurred", "divorced"}

FilterColumns == {"age_at_marriage", "marriage_duration_years", "num_children",
                  "infidelity_occurred"}

Row(age, dur, ch, inf, div) ==
    [age_at_marriage |-> age, marriage_duration_years |-> dur, num_children |-> ch,
     infidelity_occurred |-> inf, divorced |-> div]

\* The rows a dataset of the model is made of (age and duration in halves of a year).
RowValues ==
    { Row(40, 0, 0, 0, 0),      \* 20 years old, married 0 years
      Row(80, 20, 1, 1, 1),     \* 40 years old, married 10 years
      Row(61, 11, 1, 0, 1),     \* 30.5 years old, married 5.5 years
      Row(60, 20, 0, 1, 0),     \* 30 years old, married 10 years
      Row(81, 21, 1, 0, 0) }    \* 40.5 years old, married 10.5 years

\* The schemas of the model: the full one, and each one lacking a single column.
Schemas == {AllColumns} \cup {AllColumns \ {c} : c \in AllColumns}

Restrict(r, cols) == [c \in cols |-> r[c]]

Datasets(cols) ==
    UNION { { [i \in 1..n |-> Restrict(d[i], cols)] : d \in [1..n -> RowValues] }
            : n \in 0..MaxRows }

(***************************************************************************)
(* Helpers: series, integers, fractions.                                   *)
(***************************************************************************)
Range(s) == {s[i] : i \in 1..Len(s)}

Min(S) == CHOOSE x \in S : \A y \in S : x <= y
Max(S) == CHOOSE x \in S : \A y \in S : y <= x

RECURSIVE Sum(_)
Sum(s) == IF Len(s) = 0 THEN 0 ELSE Head(s) + Sum(Tail(s))

RECURSIVE GCD(_, _)
GCD(a, b) == IF b = 0 THEN a ELSE GCD(b, a % b)

\* A float that is a ratio of two naturals, in lowest terms; den = 0 is NaN.
NaN == [num |-> 0, den |-> 0]
Frac(n, d) == IF d = 0 THEN NaN ELSE [num |-> n \div GCD(n, d), den |-> d \div GCD(n, d)]

\* df[c] restricted to the row positions idx: the Series of column c.
Series(d, idx, c) == [k \in 1..Len(idx) |-> d[idx[k]][c]]

Index(d) == [i \in 1..Len(d) |-> i]

\* Mutant of Mean: the mean of an empty Series is 0.
Mean_zero(s) == IF Len(s) = 0 THEN Frac(0, 1) ELSE Frac(Sum(s), Len(s))

\* Series.mean(): NaN on an empty Series (pandas raises nothing).
Mean(s) == Frac(Sum(s), Len(s))

\* int(x) of a non-negative value kept in halves: truncation.
int(v) == v \div 2

\* An integer slider position in the fixed point of the columns.
ToFixed(n) == 2 * n

\* round(1000 * n / d) to the nearest integer, ties to even: the digits of
\* f"{x:.1%}" and f"{x:.1f}" with x = 100 * n / d.
RoundPermille(n, d) ==
    LET q == (1000 * n) \div d
        r == (1000 * n) % d
    IN  IF 2 * r < d THEN q
        ELSE IF 2 * r > d THEN q + 1
        ELSE IF q % 2 = 0 THEN q ELSE q + 1

\* f"{x:.1%}": the digits of the percentage (in tenths of a percent) and "%",
\* or "nan%" for NaN.
FormatPct(x) ==
    IF x.den = 0 THEN [digits |-> 0, text |-> "nan%"]
    ELSE [digits |-> RoundPermille(x.num, x.den), text |-> "%"]

\* st.metric(label, n) of an integer n.
FormatInt(n) == [digits |-> n, text |-> ""]

Metric(label, value) == [label |-> label, value |-> value]

(***************************************************************************)
(* pandas operations the script calls.                                     *)
(***************************************************************************)
\* sorted(S): the ascending list of the values of S.
sorted(S) ==
    [k \in 1..Cardinality(S) |->
        CHOOSE x \in S : Cardinality({y \in S : y < x}) = k - 1]

\* Positions of s that hold the first occurrence of their value.
FirstSeen(s) == SelectSeq(Index(s), LAMBDA i : \A j \in 1..(i - 1) : s[j] # s[i])

Count(s, v) == Cardinality({i \in 1..Len(s) : s[i] = v})

\* Series.value_counts(): one entry per distinct value, by descending
\* count; equal counts keep the order of first appearance (stable sort).
value_counts(s) ==
    LET first == FirstSeen(s)
        Before(i, j) == \/ Count(s, s[i]) > Count(s, s[j])
                        \/ Count(s, s[i]) = Count(s, s[j]) /\ i < j
        Place(i) == 1 + Cardinality({j \in Range(first) : Before(j, i)})
    IN  [k \in 1..Len(first) |->
            LET i == CHOOSE j \in Range(first) : Place(j) = k
            IN  [key |-> s[i], count |-> Count(s, s[i])]]

\* Mutant of groupby_mean: groupby(by, sort=False), the groups in order of first
\* appearance.
groupby_mean_unsorted(d, idx, by, col) ==
    LET first == FirstSeen(Series(d, idx, by))
    IN  [k \in 1..Len(first) |->
            [key  |-> d[idx[first[k]]][by],
             mean |-> Mean(Series(d, SelectSeq(idx,
                               LAMBDA i : d[i][by] = d[idx[first[k]]][by]), col))]]

\* df.iloc[idx].groupby(by)[col].mean(): one entry per value of by present in
\* the rows idx, in ascending order of the key (sort=True is the default).
groupby_mean(d, idx, by, col) ==
    LET keys == sorted(Range(Series(d, idx, by)))
    IN  [k \in 1..Len(keys) |->
            [key  |-> keys[k],
             mean |-> Mean(Series(d, SelectSeq(idx, LAMBDA i : d[i][by] = keys[k]), col))]]

(***************************************************************************)
(* The script, section by section.  An exception stops the run: nothing    *)
(* after the raising line is executed.                                     *)
(***************************************************************************)
NoError == [kind |-> "none", line |-> 0]
KeyError(line) == [kind |-> "KeyError", line |-> line]
ValueError(line) == [kind |-> "ValueError", line |-> line]

\* The run executed the statement ending at this line.
Reached(err, line) == err.kind = "none" \/ err.line > line

PieLabels == <<"Not Divorced", "Divorced">>
BarLabels == <<"No Infidelity", "Infidelity">>

\* Mutant of OverviewError: the overview sections do not read the columns the
\* filters use.
OverviewError_late(d, cols) ==
    IF "divorced" \notin cols THEN KeyError(30)
    ELSE IF Len(value_counts(Series(d, Index(d), "divorced"))) # Len(PieLabels)
         THEN ValueError(48)
    ELSE NoError

\* Lines 19-114: the unfiltered overview and charts.  df[c] raises KeyError for
\* an absent column; ax1.pie raises ValueError unless it gets as many labels as
\* values.
OverviewError(d, cols) ==
    IF "divorced" \notin cols THEN KeyError(30)
    ELSE IF Len(value_counts(Series(d, Index(d), "divorced"))) # Len(PieLabels)
         THEN ValueError(48)
    ELSE IF "age_at_marriage" \notin cols THEN KeyError(59)
    ELSE IF "infidelity_occurred" \notin cols THEN KeyError(77)
    ELSE IF "num_children" \notin cols THEN KeyError(87)
    ELSE NoError

\* Lines 116-146: the sidebar widgets.  int(NaN), the minimum of an empty
\* column, raises ValueError.
SidebarError(d, cols) ==
    IF "age_at_marriage" \notin cols THEN KeyError(122)
    ELSE IF Len(d) = 0 THEN ValueError(122)
    ELSE IF "marriage_duration_years" \notin cols THEN KeyError(130)
    ELSE IF "num_children" \notin cols THEN KeyError(138)
    ELSE NoError

\* Lines 148-160: the filter expression.
FilterError(cols, choice) ==
    IF "age_at_marriage" \notin cols THEN KeyError(150)
    ELSE IF "marriage_duration_years" \notin cols THEN KeyError(152)
    ELSE IF "num_children" \notin cols THEN KeyError(154)
    ELSE IF choice = "No Infidelity" /\ "infidelity_occurred" \notin cols THEN KeyError(158)
    ELSE IF choice = "Infidelity Occurred" /\ "infidelity_occurred" \notin cols
         THEN KeyError(160)
    ELSE NoError

\* Lines 162-174: the filtered metrics.
MetricsError(cols) ==
    IF "divorced" \notin cols THEN KeyError(171) ELSE NoError

\* Lines 190-199: ax1.pie is called when divorce_counts is not empty and raises
\* ValueError unless it gets as many labels as values.
PieError(counts) ==
    IF Len(counts) > 0 /\ Len(counts) # Len(PieLabels) THEN ValueError(197) ELSE NoError

\* Lines 201-231: the histogram and the grouped rates.
ChartsError(cols, f) ==
    IF "age_at_marriage" \notin cols THEN KeyError(205)
    ELSE IF Len(f) > 0 /\ "infidelity_occurred" \notin cols THEN KeyError(219)
    ELSE IF Len(f) > 0 /\ "num_children" \notin cols THEN KeyError(231)
    ELSE NoError

\* st.sidebar.slider(min_value, max_value, value): the range offered.  The
\* slider widens [min_value, max_value] to contain its default value.
SliderBounds(column, default) ==
    <<Min({int(Min(Range(column))), default[1]}),
      Max({int(Max(Range(column))), default[2]})>>

DefaultAge == <<20, 40>>
DefaultDuration == <<0, 10>>
InfidelityOptions == {"All", "No Infidelity", "Infidelity Occurred"}

\* Lines 138-139: options and default of the multiselect.
ChildrenOptions(d) == Range(sorted(Range(Series(d, Index(d), "num_children"))))

\* Mutant of BoolMask: the upper end of the age range is exclusive.
BoolMask_strict(d, age, dur, sel) ==
    SelectSeq(Index(d), LAMBDA i :
        /\ d[i].age_at_marriage >= ToFixed(age[1])
        /\ d[i].age_at_marriage < ToFixed(age[2])
        /\ d[i].marriage_duration_years >= ToFixed(dur[1])
        /\ d[i].marriage_duration_years <= ToFixed(dur[2])
        /\ d[i].num_children \in sel)

\* Mutant of BoolMask: an empty selection is treated as no selection at all.
BoolMask_none_is_all(d, age, dur, sel) ==
    SelectSeq(Index(d), LAMBDA i :
        /\ d[i].age_at_marriage >= ToFixed(age[1])
        /\ d[i].age_at_marriage <= ToFixed(age[2])
        /\ d[i].marriage_duration_years >= ToFixed(dur[1])
        /\ d[i].marriage_duration_years <= ToFixed(dur[2])
        /\ (sel = {} \/ d[i].num_children \in sel))

\* Lines 149-155: the boolean mask, applied to df.
BoolMask(d, age, dur, sel) ==
    SelectSeq(Index(d), LAMBDA i :
        /\ d[i].age_at_marriage >= ToFixed(age[1])
        /\ d[i].age_at_marriage <= ToFixed(age[2])
        /\ d[i].marriage_duration_years >= ToFixed(dur[1])
        /\ d[i].marriage_duration_years <= ToFixed(dur[2])
        /\ d[i].num_children \in sel)

\* Mutant of InfidelityFilter: the selected rows come out latest first.
InfidelityFilter_reversed(d, f, choice) ==
    LET Reverse(s) == [k \in 1..Len(s) |-> s[Len(s) + 1 - k]]
    IN  IF choice = "No Infidelity"
        THEN Reverse(SelectSeq(f, LAMBDA i : d[i].infidelity_occurred = 0))
        ELSE IF choice = "Infidelity Occurred"
        THEN Reverse(SelectSeq(f, LAMBDA i : d[i].infidelity_occurred = 1))
        ELSE f

\* Lines 157-160: the infidelity filter, applied to filtered_df.
InfidelityFilter(d, f, choice) ==
    IF choice = "No Infidelity"
    THEN SelectSeq(f, LAMBDA i : d[i].infidelity_occurred = 0)
    ELSE IF choice = "Infidelity Occurred"
    THEN SelectSeq(f, LAMBDA i : d[i].infidelity_occurred = 1)
    ELSE f

\* Line 197: ax1.pie(divorce_counts, labels=[...]) pairs the k-th label with the
\* k-th value of divorce_counts.
PieWedges(counts) ==
    [k \in 1..Len(counts) |->
        [label |-> PieLabels[k], key |-> counts[k].key, value |-> counts[k].count]]

\* Lines 221-222: labels = [...][:len(divorce_by_infidelity)], and ax3.bar pairs
\* the k-th label with the k-th value.
BarChart(rates) ==
    LET labels == SubSeq(BarLabels, 1, Min({Len(rates), Len(BarLabels)}))
    IN  [k \in 1..Len(labels) |->
            [label |-> labels[k], key |-> rates[k].key, value |-> rates[k].mean]]

\* Lines 148-160: the value the run binds to filtered_df (row positions of df).
\* The second assignment is not reached when line 158 or 160 raises.
FilteredFrame(d, cols, age, dur, sel, choice) ==
    IF ~({"age_at_marriage", "marriage_duration_years", "num_children"} \subseteq cols)
    THEN << >>
    ELSE IF choice # "All" /\ "infidelity_occurred" \notin cols
    THEN BoolMask(d, age, dur, sel)
    ELSE InfidelityFilter(d, BoolMask(d, age, dur, sel), choice)

\* Sequencing: the next section runs only if nothing was raised before it.
Then(err, next) == IF err = NoError THEN next ELSE err

\* The exception that stops the run, or NoError; f is FilteredFrame.
RunError(d, cols, f, choice) ==
    Then(Then(Then(Then(Then(OverviewError(d, cols),
                             SidebarError(d, cols)),
                        FilterError(cols, choice)),
                   MetricsError(cols)),
              PieError(value_counts(Series(d, f, "divorced")))),
         ChartsError(cols, f))

\* What a run that computed the frame f and ended with err leaves behind.  A
\* name of lines 148-231 that the run did not bind is kept as the empty sequence
\* and is not in defined (the values lines 46, 77 and 87 bound to the same names
\* from the whole of df are never shown by the filtered section).
Outputs(d, cols, f, err) ==
    [ error |-> err,
      widgets |->
          {w \in {"age_range"} : Reached(err, 125)}
          \cup {w \in {"duration_range"} : Reached(err, 133)}
          \cup {w \in {"children_filter"} : Reached(err, 140)}
          \cup {w \in {"infidelity_filter"} : Reached(err, 146)},
      rows_scanned |-> Reached(err, 30),
      metrics |->
          << Metric("Total Couples", FormatInt(Len(d))),
             Metric("Features", FormatInt(Cardinality(cols))) >>
          \o (IF Reached(err, 30)
              THEN << Metric("Divorce Rate",
                             FormatPct(Mean(Series(d, Index(d), "divorced")))) >>
              ELSE << >>)
          \o (IF Reached(err, 169)
              THEN << Metric("Filtered Couples", FormatInt(Len(f))),
                      Metric("Total Features", FormatInt(Cardinality(cols))) >>
              ELSE << >>)
          \o (IF Reached(err, 171)
              THEN << Metric("Filtered Divorce Rate",
                             FormatPct(Mean(Series(d, f, "divorced")))) >>
              ELSE << >>)
          \o (IF Reached(err, 174)
              THEN << Metric("Data Shown",
                             [digits |-> RoundPermille(Len(f), Len(d)), text |-> "%"]) >>
              ELSE << >>),
      defined |->
          {v \in {"filtered_df"} : Reached(err, 155)}
          \cup {v \in {"pct_shown"} : Reached(err, 173)}
          \cup {v \in {"divorce_counts"} : Reached(err, 194)}
          \cup {v \in {"divorce_by_infidelity"} : Reached(err, 219) /\ Len(f) > 0}
          \cup {v \in {"divorce_by_children"} : Reached(err, 231) /\ Len(f) > 0},
      filtered_df |-> IF Reached(err, 155) THEN f ELSE << >>,
      divorce_counts |->
          IF Reached(err, 194) THEN value_counts(Series(d, f, "divorced")) ELSE << >>,
      pie |->
          IF Reached(err, 198) /\ Len(f) > 0
          THEN PieWedges(value_counts(Series(d, f, "divorced")))
          ELSE << >>,
      divorce_by_infidelity |->
          IF Reached(err, 219) /\ Len(f) > 0
          THEN groupby_mean(d, f, "infidelity_occurred", "divorced")
          ELSE << >>,
      bars |->
          IF Reached(err, 222) /\ Len(f) > 0
          THEN BarChart(groupby_mean(d, f, "infidelity_occurred", "divorced"))
          ELSE << >>,
      divorce_by_children |->
          IF Reached(err, 231) /\ Len(f) > 0
          THEN groupby_mean(d, f, "num_children", "divorced")
          ELSE << >> ]

\* One run of the script on dataset d with columns cols and the widget values
\* age, dur, sel, choice.
Script(d, cols, age, dur, sel, choice) ==
    Outputs(d, cols,
            FilteredFrame(d, cols, age, dur, sel, choice),
            RunError(d, cols, FilteredFrame(d, cols, age, dur, sel, choice), choice))

(***************************************************************************)
(* The state machine: the first run, and one re-run per interaction.       *)
(***************************************************************************)
\* Mutant of load_data: the run gets the frame an earlier run truncated in place
\* (marriage_duration_years cast to whole years).
load_data_inplace(cached) ==
    [i \in 1..Len(cached) |->
        IF "marriage_duration_years" \in DOMAIN cached[i]
        THEN [cached[i] EXCEPT !.marriage_duration_years = ToFixed(int(@))]
        ELSE cached[i]]

\* Lines 13-19: load_data() is cached; every run gets the same dataset.
load_data(cached) == cached

\* Line 139: the multiselect starts with every option selected.
DefaultChildren(d, cols) ==
    IF "num_children" \in cols THEN ChildrenOptions(d) ELSE {}

\* A run of the whole script with the given widget values: the dataset comes
\* from the cache, everything else is replaced by what the run leaves behind.
Replace(age, dur, sel, choice, run) ==
    /\ df' = load_data(df)
    /\ columns' = columns
    /\ age_range' = age
    /\ duration_range' = dur
    /\ children_filter' = sel
    /\ infidelity_filter' = choice
    /\ widgets' = run.widgets
    /\ error' = run.error
    /\ rows_scanned' = run.rows_scanned
    /\ metrics' = run.metrics
    /\ defined' = run.defined
    /\ filtered_df' = run.filtered_df
    /\ divorce_counts' = run.divorce_counts
    /\ divorce_by_infidelity' = run.divorce_by_infidelity
    /\ divorce_by_children' = run.divorce_by_children
    /\ pie' = run.pie
    /\ bars' = run.bars

Rerun(age, dur, sel, choice) ==
    Replace(age, dur, sel, choice, Script(df, columns, age, dur, sel, choice))

\* The state a run leaves behind.
LeftBy(run) ==
    /\ widgets = run.widgets
    /\ error = run.error
    /\ rows_scanned = run.rows_scanned
    /\ metrics = run.metrics
    /\ defined = run.defined
    /\ filtered_df = run.filtered_df
    /\ divorce_counts = run.divorce_counts
    /\ divorce_by_infidelity = run.divorce_by_infidelity
    /\ divorce_by_children = run.divorce_by_children
    /\ pie = run.pie
    /\ bars = run.bars

\* The first run: the dataset is loaded and the widgets are at their defaults.
Init ==
    /\ columns \in Schemas
    /\ df \in Datasets(columns)
    /\ age_range = DefaultAge
    /\ duration_range = DefaultDuration
    /\ children_filter = DefaultChildren(df, columns)
    /\ infidelity_filter = "All"
    /\ LeftBy(Script(df, columns, age_range, duration_range, children_filter,
                     infidelity_filter))

\* The slider positions the model tries: the ends of the offered range and the
\* two default positions.
SliderStops(bounds, default) == {bounds[1], bounds[2], default[1], default[2]}

\* The positions tried on a slider; a slider the last run did not render offers none.
AgeStops ==
    IF "age_range" \in widgets
    THEN SliderStops(SliderBounds(Series(df, Index(df), "age_at_marriage"), DefaultAge),
                     DefaultAge)
    ELSE {}

DurationStops ==
    IF "duration_range" \in widgets
    THEN SliderStops(SliderBounds(Series(df, Index(df), "marriage_duration_years"),
                                  DefaultDuration),
                     DefaultDuration)
    ELSE {}

\* The selections tried on the multiselect.
ChildrenSelections ==
    IF "children_filter" \in widgets THEN SUBSET ChildrenOptions(df) ELSE {}

\* The user moves the "Age at Marriage" slider.
SetAgeRange(lo, hi) ==
    /\ "age_range" \in widgets
    /\ lo <= hi
    /\ <<lo, hi>> # age_range
    /\ Rerun(<<lo, hi>>, duration_range, children_filter, infidelity_filter)

\* The user moves the "Marriage Duration (years)" slider.
SetDurationRange(lo, hi) ==
    /\ "duration_range" \in widgets
    /\ lo <= hi
    /\ <<lo, hi>> # duration_range
    /\ Rerun(age_range, <<lo, hi>>, children_filter, infidelity_filter)

\* The user changes the "Number of Children" selection.
SetChildrenFilter(sel) ==
    /\ "children_filter" \in widgets
    /\ sel # children_filter
    /\ Rerun(age_range, duration_range, sel, infidelity_filter)

\* Mutant of SetInfidelityFilter: the run still filters with the previous choice.
SetInfidelityFilter_stale(choice) ==
    /\ "infidelity_filter" \in widgets
    /\ choice # infidelity_filter
    /\ Replace(age_range, duration_range, children_filter, choice,
               Script(df, columns, age_range, duration_range, children_filter,
                      infidelity_filter))

\* The user picks an "Infidelity Status".
SetInfidelityFilter(choice) ==
    /\ "infidelity_filter" \in widgets
    /\ choice # infidelity_filter
    /\ Rerun(age_range, duration_range, children_filter, choice)

\* The user re-runs the script without touching a widget.
Refresh ==
    Rerun(age_range, duration_range, children_filter, infidelity_filter)

Next ==
    \/ \E lo, hi \in AgeStops : SetAgeRange(lo, hi)
    \/ \E lo, hi \in DurationStops : SetDurationRange(lo, hi)
    \/ \E sel \in ChildrenSelections : SetChildrenFilter(sel)
    \/ \E choice \in InfidelityOptions : SetInfidelityFilter(choice)
    \/ Refresh

Spec == Init /\ [][Next]_vars

(***************************************************************************)
(* Properties.                                                             *)
(***************************************************************************)
AllWidgets == {"age_range", "duration_range", "children_filter", "infidelity_filter"}

\* Row i of df satisfies every active predicate of the current widget values.
Satisfies(i) ==
    /\ ToFixed(age_range[1]) <= df[i].age_at_marriage
    /\ df[i].age_at_marriage <= ToFixed(age_range[2])
    /\ ToFixed(duration_range[1]) <= df[i].marriage_duration_years
    /\ df[i].marriage_duration_years <= ToFixed(duration_range[2])
    /\ df[i].num_children \in children_filter
    /\ \/ infidelity_filter = "All"
       \/ infidelity_filter = "No Infidelity" /\ df[i].infidelity_occurred = 0
       \/ infidelity_filter = "Infidelity Occurred" /\ df[i].infidelity_occurred = 1

\* C1: whenever the run has bound filtered_df, a row of df is in it if and only
\* if it satisfies all active predicates at once (both ranges inclusive, the
\* children selection, and the infidelity choice unless it is 'All').
C1_FilterIsConjunction ==
    "filtered_df" \in defined =>
        \A i \in 1..Len(df) : (i \in Range(filtered_df)) <=> Satisfies(i)

\* C1 witness: non-default filters keep some rows and drop others.
C1_Witness ==
    /\ "filtered_df" \in defined
    /\ infidelity_filter = "Infidelity Occurred"
    /\ age_range # DefaultAge
    /\ Len(filtered_df) >= 1
    /\ Len(filtered_df) < Len(df)

\* C2: the filtered view is a subsequence of df: its rows are rows of df, in the
\* order of df, none twice, and it is not longer than df.
C2_Subsequence ==
    "filtered_df" \in defined =>
        /\ \A k \in 1..Len(filtered_df) : filtered_df[k] \in 1..Len(df)
        /\ \A k, l \in 1..Len(filtered_df) : k < l => filtered_df[k] < filtered_df[l]
        /\ Len(filtered_df) <= Len(df)

\* C2 witness: after filter changes the view keeps the first and the third row
\* of a three-row dataset.
C2_Witness ==
    /\ "filtered_df" \in defined
    /\ Len(df) = 3
    /\ filtered_df = <<1, 3>>
    /\ infidelity_filter # "All"
    /\ duration_range # DefaultDuration

NoFilterActive ==
    /\ widgets = AllWidgets
    /\ infidelity_filter = "All"
    /\ children_filter = ChildrenOptions(df)
    /\ age_range = SliderBounds(Series(df, Index(df), "age_at_marriage"), DefaultAge)
    /\ duration_range =
           SliderBounds(Series(df, Index(df), "marriage_duration_years"), DefaultDuration)

\* C4: with no filter active the filtered view is the whole dataset, in order.
C4_IdentityFilter ==
    (NoFilterActive /\ "filtered_df" \in defined) => filtered_df = Index(df)

\* Every age and duration of df is a whole number of years.
WholeYears ==
    \A i \in 1..Len(df) :
        /\ df[i].age_at_marriage = ToFixed(int(df[i].age_at_marriage))
        /\ df[i].marriage_duration_years = ToFixed(int(df[i].marriage_duration_years))

\* What remains of C4 in the code: the no-filter state returns the whole dataset
\* when no age or duration has a fractional part.
C4_IdentityOnWholeYears ==
    (NoFilterActive /\ "filtered_df" \in defined /\ WholeYears) => filtered_df = Index(df)

\* C5: with an empty children selection the view is empty whatever the other
\* filters are, and this is neither the no-filter state nor the full dataset.
C5_EmptySelection ==
    ("filtered_df" \in defined /\ children_filter = {}) =>
        /\ Len(filtered_df) = 0
        /\ filtered_df # Index(df)
        /\ ~NoFilterActive

\* C5 witness: the selection was emptied while other filters are off default.
C5_Witness ==
    /\ "filtered_df" \in defined
    /\ children_filter = {}
    /\ infidelity_filter # "All"
    /\ age_range # DefaultAge
    /\ Len(df) >= 2

FilteredRateShown == {m \in Range(metrics) : m.label = "Filtered Divorce Rate"}

\* C6: when the view has no rows, the run gets past the filtered metrics (lines
\* 166-174) without raising, and the filtered divorce rate it shows is NaN
\* ("nan%"), not 0.
C6_RateOnEmptyView ==
    ("filtered_df" \in defined /\ Len(filtered_df) = 0) =>
        /\ Reached(error, 174)
        /\ FilteredRateShown # {}
        /\ \A m \in FilteredRateShown :
               m.value.text = "nan%" /\ m.value # FormatPct(Frac(0, 1))

\* C6 witness: a non-empty selection, yet the ranges leave no row.
C6_Witness ==
    /\ "filtered_df" \in defined
    /\ Len(filtered_df) = 0
    /\ children_filter # {}
    /\ Len(df) >= 2
    /\ Len(metrics) = 7

C8_DatasetReadOnly == [][df' = df /\ columns' = columns]_vars

\* C8 witness: filters have been changed and the view is a proper part of df.
C8_Witness ==
    /\ "filtered_df" \in defined
    /\ Len(filtered_df) < Len(df)
    /\ Len(filtered_df) > 0
    /\ children_filter # ChildrenOptions(df)
    /\ duration_range # DefaultDuration

\* g is the grouped mean of 'divorced' over the view, by column by.
GroupedOver(g, by) ==
    LET present == {df[i][by] : i \in Range(filtered_df)}
    IN  /\ Len(g) = Cardinality(present)
        /\ {g[k].key : k \in 1..Len(g)} = present
        /\ \A k, l \in 1..Len(g) : k < l => g[k].key < g[l].key
        /\ \A k \in 1..Len(g) :
               LET rows == {i \in Range(filtered_df) : df[i][by] = g[k].key}
                   ones == {i \in rows : df[i].divorced = 1}
               IN  /\ g[k].mean.den > 0
                   /\ g[k].mean.num * Cardinality(rows) =
                          Cardinality(ones) * g[k].mean.den

\* C9: a run that reaches the grouped rates with a non-empty view binds, for
\* infidelity_occurred and for num_children, one entry per value present in the
\* view, in ascending key order, each the mean of 'divorced' over that group; a
\* value with no row in the view has no entry, and an empty view draws no bar.
C9_GroupedRates ==
    /\ (error = NoError /\ Len(filtered_df) > 0) =>
           {"divorce_by_infidelity", "divorce_by_children"} \subseteq defined
    /\ "divorce_by_infidelity" \in defined =>
           GroupedOver(divorce_by_infidelity, "infidelity_occurred")
    /\ "divorce_by_children" \in defined =>
           GroupedOver(divorce_by_children, "num_children")
    /\ Len(filtered_df) = 0 => bars = << >>

\* C9 witness: the view holds only infidelity_occurred = 0 rows (the other group
\* is omitted), half of them divorced, and its first row has the larger
\* num_children key.
C9_Witness ==
    /\ "divorce_by_infidelity" \in defined
    /\ "divorce_by_children" \in defined
    /\ Len(filtered_df) < Len(df)
    /\ Len(divorce_by_infidelity) = 1
    /\ divorce_by_infidelity[1].mean = Frac(1, 2)
    /\ Len(divorce_by_children) = 2
    /\ df[filtered_df[1]].num_children = 1

\* C10: in the filtered charts every label is attached to the value of the group
\* it names, and there are as many labels as values plotted.
C10_LabelsNameGroups ==
    /\ "divorce_counts" \in defined =>
           /\ Len(pie) = Len(divorce_counts)
           /\ \A k \in 1..Len(pie) :
                  /\ pie[k].label = "Not Divorced" <=> pie[k].key = 0
                  /\ pie[k].label = "Divorced" <=> pie[k].key = 1
    /\ "divorce_by_infidelity" \in defined =>
           /\ Len(bars) = Len(divorce_by_infidelity)
           /\ \A k \in 1..Len(bars) :
                  /\ bars[k].label = "No Infidelity" <=> bars[k].key = 0
                  /\ bars[k].label = "Infidelity" <=> bars[k].key = 1

====
